---- MODULE Spec2Model ----
(***************************************************************************)
(* Storage abstraction API: the HTTP routing layer (bearer authentication, *)
(* tenant resolution, request validation) over the vector, chat and graph  *)
(* adapters.                                                               *)
(*                                                                         *)
(* Text is a sequence of one-character strings, so that prefix tests,      *)
(* splits, key construction and key pattern matching are computed on the   *)
(* characters as the code computes them.  A float is modelled by an        *)
(* integer.                                                                *)
(***************************************************************************)
EXTENDS Integers, Sequences, FiniteSets, TLC

VARIABLES
    vector_port,    \* the adapter bound to the vector port: "pgvector" or "redis"
    pg_tables,      \* PgVectorAdapter: table name -> [dim, metric, rows: id -> row]
    redis_hashes,   \* RedisVectorAdapter: key -> hash (field -> value)
    upserted,       \* history: <<tenant, collection, id>> of every item a tenant upserted
    chat_port,      \* the adapter bound to the chat port: "postgres" or "redis"
    pg_messages,    \* PostgresChatAdapter: the rows of table messages
    pg_threads,     \* PostgresChatAdapter: table threads, id -> tenant
    redis_lists,    \* RedisChatAdapter: key -> list of serialized messages, head first
    clock,          \* the server clock: it ticks once with every append request served
    appended,       \* history: the append requests served, in order
    cut,            \* history: thread id -> the last truncation that emptied the thread
    nodes,          \* Neo4jAdapter: the Entity nodes
    edges,          \* Neo4jAdapter: the relationships
    last,           \* the request served last and its response
    settings,       \* config.py: the Settings object, read from the environment
    _vector,        \* deps.py: the vector port's adapter handle
    _chat,          \* deps.py: the chat port's adapter handle
    _graph,         \* deps.py: the graph port's adapter handle
    calls,          \* the port resolver calls in progress, one per threadpool worker
    constructed,    \* history: port -> the number of adapters constructed for it
    returned,       \* history: << port, adapter >> of every resolver call that returned
    trunc,          \* RedisChatAdapter: the truncate call in progress, between its commands
    mem_hashes,     \* MemoryGraphManager: the hashes of its Redis, key -> hash
    mem_sets        \* MemoryGraphManager: the sets of its Redis, key -> set

vars == << vector_port, pg_tables, redis_hashes, upserted, chat_port, pg_messages,
           pg_threads, redis_lists, clock, appended, cut, nodes, edges, last,
           settings, _vector, _chat, _graph, calls, constructed, returned,
           trunc, mem_hashes, mem_sets >>

vectorVars == << vector_port, pg_tables, redis_hashes, upserted >>
depsVars == << settings, _vector, _chat, _graph, calls, constructed, returned >>
memVars == << mem_hashes, mem_sets >>
chatVars == << chat_port, pg_messages, pg_threads, redis_lists, clock, appended, cut, trunc >>
graphVars == << nodes, edges >>

(***************************************************************************)
(* Text                                                                    *)
(***************************************************************************)
None == << "None" >>                \* Python's None where a text is optional

Truthy(s) == s # None /\ s # << >>  \* a header that is neither absent nor empty

StartsWith(s, p) == Len(s) >= Len(p) /\ SubSeq(s, 1, Len(p)) = p

Positions(s, ch) == { i \in 1..Len(s) : s[i] = ch }

Smallest(S) == CHOOSE i \in S : \A j \in S : i <= j

Largest(S) == CHOOSE i \in S : \A j \in S : j <= i

\* s.split(ch, 1)[1]: what follows the first ch (s holds one)
AfterFirst(s, ch) == SubSeq(s, Smallest(Positions(s, ch)) + 1, Len(s))

\* s.split(ch)[-1]: what follows the last ch, the whole text when there is none
AfterLast(s, ch) ==
    IF Positions(s, ch) = {} THEN s
    ELSE SubSeq(s, Largest(Positions(s, ch)) + 1, Len(s))

\* Redis key pattern matching, for the pattern characters * and ?
RECURSIVE GlobMatch(_, _)
GlobMatch(p, s) ==
    IF p = << >> THEN s = << >>
    ELSE IF Head(p) = "*"
         THEN GlobMatch(Tail(p), s) \/ (s # << >> /\ GlobMatch(p, Tail(s)))
    ELSE IF s = << >> THEN FALSE
    ELSE IF Head(p) = "?" THEN GlobMatch(Tail(p), Tail(s))
    ELSE Head(p) = Head(s) /\ GlobMatch(Tail(p), Tail(s))

\* every arrangement of a finite set as a sequence (the order of a scan, or of
\* rows that an ORDER BY leaves tied)
Orders(S) ==
    { f \in [1..Cardinality(S) -> S] : \A i, j \in 1..Cardinality(S) : i # j => f[i] # f[j] }

Min2(a, b) == IF a <= b THEN a ELSE b

Prefix(s, n) == SubSeq(s, 1, Min2(n, Len(s)))

(***************************************************************************)
(* Settings and the request dependencies (config.py, deps.py)              *)
(***************************************************************************)
api_key == << "c", "h", "a", "n", "g", "e", "m", "e" >>

Bearer == << "B", "e", "a", "r", "e", "r", " " >>

public == << "p", "u", "b", "l", "i", "c" >>

ValidAuth == Bearer \o api_key

require_api_key_AnyScheme(authorization) ==
    IF ~Truthy(authorization) \/ Positions(authorization, " ") = {} THEN 401
    ELSE IF AfterFirst(authorization, " ") # api_key THEN 403
    ELSE 0

\* 0 when the request passes, else the status of the HTTPException raised
require_api_key(authorization) ==
    IF ~Truthy(authorization) \/ ~StartsWith(authorization, Bearer) THEN 401
    ELSE IF AfterFirst(authorization, " ") # api_key THEN 403
    ELSE 0

get_tenant_key(x_tenant_id) == IF Truthy(x_tenant_id) THEN x_tenant_id ELSE public

\* the defaults of class Settings
Settings ==
    [vector_backend |-> "pgvector", chat_backend |-> "postgres", graph_backend |-> "neo4j"]

Ports == { "vector", "chat", "graph" }

Workers == { 1, 2 }

\* a handle that is None
NoAdapter == [adapter |-> "None", no |-> 0]

Idle == [port |-> "none", pc |-> "idle"]

\* the handle of a port: _vector, _chat or _graph
Handle(port) ==
    CASE port = "vector" -> _vector
      [] port = "chat" -> _chat
      [] port = "graph" -> _graph

\* the class get_vector_port, get_chat_port and get_graph_port construct
Constructs(port) ==
    CASE port = "vector" -> "PgVectorAdapter"
      [] port = "chat" -> "PostgresChatAdapter"
      [] port = "graph" -> "Neo4jAdapter"

\* a resolver that constructs with every call
is_None_Always(handle) == TRUE

\* if _vector is None
is_None(handle) == handle = NoAdapter

\* f"{tenant}:{collection}"
CollectionName(tenant, collection) == tenant \o << ":" >> \o collection

(***************************************************************************)
(* Request schema (schema/vector.py)                                       *)
(***************************************************************************)
MinEmbeddingLen == 8

VectorItemValid(item) == Len(item.embedding) >= MinEmbeddingLen

VectorUpsertRequestValid_FirstItemOnly(items) ==
    items = << >> \/ VectorItemValid(items[1])

VectorUpsertRequestValid(items) == \A i \in 1..Len(items) : VectorItemValid(items[i])

(***************************************************************************)
(* Serialized forms                                                        *)
(***************************************************************************)
json_dumps(v) == << "json", v >>

json_loads(t) == t[2]

\* "[" + ",".join(map(str, embedding)) + "]", and the engine's reading of it
EmbeddingStr(embedding) == << "vector", Len(embedding), embedding >>

ParseVector(t) == t[3]

(***************************************************************************)
(* Similarity.  A cosine similarity c is represented by the fraction       *)
(* sign(c) * c^2, which orders as c does; a squared Euclidean distance     *)
(* orders as the distance does.                                            *)
(***************************************************************************)
RECURSIVE Dot(_, _)
Dot(a, b) == IF a = << >> THEN 0 ELSE Head(a) * Head(b) + Dot(Tail(a), Tail(b))

Sign(x) == IF x > 0 THEN 1 ELSE IF x < 0 THEN 0 - 1 ELSE 0

Zero == [num |-> 0, den |-> 1]

Cosine(a, b) == [num |-> Sign(Dot(a, b)) * Dot(a, b) * Dot(a, b), den |-> Dot(a, a) * Dot(b, b)]

ScoreGeq(s, t) == s.num * t.den >= t.num * s.den

_cosine_similarity(a, b) ==
    IF a = << >> \/ b = << >> \/ Len(a) # Len(b) THEN Zero
    ELSE IF Dot(a, a) = 0 \/ Dot(b, b) = 0 THEN Zero
    ELSE Cosine(a, b)

RECURSIVE L2Squared(_, _)
L2Squared(a, b) ==
    IF a = << >> THEN 0
    ELSE (Head(a) - Head(b)) * (Head(a) - Head(b)) + L2Squared(Tail(a), Tail(b))

(***************************************************************************)
(* PgVectorAdapter (adapters/vector/pgvector_adapter.py)                   *)
(***************************************************************************)
\* CREATE TABLE IF NOT EXISTS "<collection>" (id, embedding vector(dim), metadata)
PgVector_ensure_collection(tables, collection, schema) ==
    IF collection \in DOMAIN tables THEN tables
    ELSE [n \in DOMAIN tables \cup {collection} |->
            IF n = collection
            THEN [dim |-> schema.dim, metric |-> schema.metric, rows |-> << >>]
            ELSE tables[n]]

PgInsertOnConflictDoNothing(rows, it) ==
    [i \in DOMAIN rows \cup {it.id} |->
        IF i \in DOMAIN rows THEN rows[i]
        ELSE [embedding |-> ParseVector(EmbeddingStr(it.embedding)),
              metadata |-> IF it.metadata # None THEN json_dumps(it.metadata) ELSE None]]

\* INSERT ... ON CONFLICT (id) DO UPDATE SET embedding, metadata
PgInsertOnConflictUpdate(rows, it) ==
    [i \in DOMAIN rows \cup {it.id} |->
        IF i = it.id
        THEN [embedding |-> ParseVector(EmbeddingStr(it.embedding)),
              metadata |-> IF it.metadata # None THEN json_dumps(it.metadata) ELSE None]
        ELSE rows[i]]

\* no statement of the batch raises: the table exists and every embedding is
\* of the column's dimension
PgVector_upsert_ok(tables, collection, items) ==
    items = << >>
    \/ /\ collection \in DOMAIN tables
       /\ \A i \in 1..Len(items) : Len(items[i].embedding) = tables[collection].dim

\* for it in items: conn.execute(...), up to the first statement that raises
RECURSIVE PgExecuteEach(_, _, _)
PgExecuteEach(rows, dim, items) ==
    IF items = << >> \/ Len(Head(items).embedding) # dim THEN rows
    ELSE PgExecuteEach(PgInsertOnConflictUpdate(rows, Head(items)), dim, Tail(items))

\* the loop on a connection that commits each statement
PgVector_upsert_Autocommit(tables, collection, items) ==
    IF items = << >> \/ collection \notin DOMAIN tables THEN tables
    ELSE [tables EXCEPT ![collection].rows = PgExecuteEach(@, tables[collection].dim, items)]

\* async with self.engine.begin(): the block commits when the loop ends and
\* rolls back when a statement raises
PgVector_upsert(tables, collection, items) ==
    IF items = << >> \/ collection \notin DOMAIN tables THEN tables
    ELSE IF ~PgVector_upsert_ok(tables, collection, items) THEN tables
    ELSE [tables EXCEPT ![collection].rows = PgExecuteEach(@, tables[collection].dim, items)]

PgVector_query_ok(tables, collection, embedding) ==
    /\ collection \in DOMAIN tables
    /\ \A id \in DOMAIN tables[collection].rows :
          Len(tables[collection].rows[id].embedding) = Len(embedding)

\* SELECT id, 1 - (embedding <=> :emb) AS score, metadata
\*   ORDER BY embedding <-> :emb LIMIT :k
\* every result list the statement can return: rows at the same distance come
\* in any order
PgVector_query(tables, collection, embedding, k) ==
    LET rows == tables[collection].rows
        Dist(id) == L2Squared(rows[id].embedding, embedding)
    IN  { [i \in 1..Min2(k, Len(o)) |->
                [id |-> o[i],
                 score |-> Cosine(rows[o[i]].embedding, embedding),
                 metadata |-> rows[o[i]].metadata]] :
            o \in { p \in Orders(DOMAIN rows) :
                      \A i, j \in 1..Len(p) : i < j => Dist(p[i]) <= Dist(p[j]) } }

(***************************************************************************)
(* RedisVectorAdapter (adapters/vector/redis_adapter.py)                   *)
(***************************************************************************)
SchemaKey(collection) ==
    << "c", "o", "l", "l", "e", "c", "t", "i", "o", "n", ":" >> \o collection
        \o << ":", "s", "c", "h", "e", "m", "a" >>

DocKey(collection, id) == collection \o << ":", "d", "o", "c", ":" >> \o id

DocPattern(collection) == collection \o << ":", "d", "o", "c", ":", "*" >>

\* HSET key field value ...: the fields given are set, the others are kept
HSet(hashes, key, mapping) ==
    [k \in DOMAIN hashes \cup {key} |->
        IF k = key
        THEN [f \in (IF key \in DOMAIN hashes THEN DOMAIN hashes[key] ELSE {})
                        \cup DOMAIN mapping |->
                 IF f \in DOMAIN mapping THEN mapping[f] ELSE hashes[key][f]]
        ELSE hashes[k]]

RedisVector_ensure_collection(hashes, collection, schema) ==
    HSet(hashes, SchemaKey(collection), schema)

RECURSIVE RedisVector_upsert(_, _, _)
RedisVector_upsert(hashes, collection, items) ==
    IF items = << >> THEN hashes
    ELSE RedisVector_upsert(
            HSet(hashes, DocKey(collection, Head(items).id),
                 [embedding |-> json_dumps(Head(items).embedding),
                  metadata |-> json_dumps(Head(items).metadata)]),
            collection, Tail(items))

RedisDocResult(hashes, key, embedding) ==
    LET doc_data == hashes[key]
        doc_embedding == IF "embedding" \in DOMAIN doc_data
                         THEN json_loads(doc_data.embedding) ELSE << >>
        metadata == IF "metadata" \in DOMAIN doc_data
                    THEN json_loads(doc_data.metadata) ELSE << >>
    IN  [id |-> AfterLast(key, ":"),
         score |-> _cosine_similarity(embedding, doc_embedding),
         metadata |-> metadata]

\* results.sort(key=score, reverse=True): stable, so equal scores keep their order
RECURSIVE InsertByScore(_, _)
InsertByScore(sorted, r) ==
    IF sorted = << >> THEN << r >>
    ELSE IF ScoreGeq(Head(sorted).score, r.score)
         THEN << Head(sorted) >> \o InsertByScore(Tail(sorted), r)
         ELSE << r >> \o sorted

RECURSIVE SortByScore(_)
SortByScore(results) ==
    IF results = << >> THEN << >>
    ELSE InsertByScore(SortByScore(SubSeq(results, 1, Len(results) - 1)),
                       results[Len(results)])

\* the keys SCAN MATCH "<collection>:doc:*" yields
ScanKeys(hashes, collection) ==
    { key \in DOMAIN hashes : GlobMatch(DocPattern(collection), key) }

\* every result list the query can return: SCAN yields the keys in any order,
\* the first k of them are scored and sorted
RedisVector_query(hashes, collection, embedding, k) ==
    { Prefix(SortByScore([i \in 1..Min2(k, Len(keys)) |->
                              RedisDocResult(hashes, keys[i], embedding)]), k) :
        keys \in Orders(ScanKeys(hashes, collection)) }

(***************************************************************************)
(* The state after construction and the response record                    *)
(***************************************************************************)
\* no truncate call is between its commands
NoTruncate == [pc |-> "idle", thread_id |-> None, keep_last_n |-> 0, len |-> 0]

NoRequest ==
    [op |-> "none", auth |-> None, tenant |-> None, target |-> None, body |-> << >>,
     status |-> 0, out |-> << >>, replaced |-> FALSE]

Response(op, auth, tenant, target, body, status, out) ==
    [op |-> op, auth |-> auth, tenant |-> tenant, target |-> target, body |-> body,
     status |-> status, out |-> out, replaced |-> FALSE]

Init ==
    /\ vector_port = "pgvector"
    /\ pg_tables = << >>
    /\ redis_hashes = << >>
    /\ upserted = {}
    /\ chat_port = "postgres"
    /\ pg_messages = {}
    /\ pg_threads = << >>
    /\ redis_lists = << >>
    /\ clock = 0
    /\ appended = << >>
    /\ cut = << >>
    /\ nodes = {}
    /\ edges = {}
    /\ last = NoRequest
    /\ settings = Settings
    /\ _vector = NoAdapter
    /\ _chat = NoAdapter
    /\ _graph = NoAdapter
    /\ calls = [w \in Workers |-> Idle]
    /\ constructed = [p \in Ports |-> 0]
    /\ returned = {}
    /\ trunc = NoTruncate
    /\ mem_hashes = << >>
    /\ mem_sets = << >>

(***************************************************************************)
(* Vector routes (routers/vector.py)                                       *)
(***************************************************************************)
\* the index name CREATE INDEX is given is not quoted: it must be a plain identifier
IdentifierChars ==
    { "a", "b", "c", "d", "e", "h", "i", "l", "m", "n", "o", "p", "s", "t", "u", "x", "y", "_" }

PgIndexNameOk(collection) ==
    \A i \in 1..Len(collection) : collection[i] = ":" \/ collection[i] \in IdentifierChars

PgVector_ensure_collection_ok(collection, schema) == PgIndexNameOk(collection) /\ schema.dim >= 1

put_collection(authorization, x_tenant_id, collection, body) ==
    LET tenant == get_tenant_key(x_tenant_id)
        name == CollectionName(tenant, collection)
        denied == require_api_key(authorization)
        failed == vector_port = "pgvector" /\ ~PgVector_ensure_collection_ok(name, body)
        status == IF denied # 0 THEN denied ELSE IF failed THEN 500 ELSE 200
    IN  /\ pg_tables' = IF status = 200 /\ vector_port = "pgvector"
                        THEN PgVector_ensure_collection(pg_tables, name, body)
                        ELSE pg_tables
        /\ redis_hashes' = IF status = 200 /\ vector_port = "redis"
                           THEN RedisVector_ensure_collection(redis_hashes, name, body)
                           ELSE redis_hashes
        /\ last' = Response("put_collection", authorization, tenant, collection, body,
                            status, << >>)
        /\ UNCHANGED << vector_port, upserted, chatVars, graphVars, depsVars, memVars >>

\* what the collection holds under an id, as the adapter bound to the port stores it
StoredIn(tables, hashes, name, id) ==
    IF vector_port = "pgvector"
    THEN IF name \in DOMAIN tables /\ id \in DOMAIN tables[name].rows
         THEN [embedding |-> tables[name].rows[id].embedding,
               metadata |-> IF tables[name].rows[id].metadata = None THEN None
                            ELSE json_loads(tables[name].rows[id].metadata)]
         ELSE None
    ELSE IF DocKey(name, id) \in DOMAIN hashes
         THEN [embedding |-> json_loads(hashes[DocKey(name, id)].embedding),
               metadata |-> json_loads(hashes[DocKey(name, id)].metadata)]
         ELSE None

HoldsIn(tables, hashes, name, id) ==
    IF vector_port = "pgvector"
    THEN name \in DOMAIN tables /\ id \in DOMAIN tables[name].rows
    ELSE DocKey(name, id) \in DOMAIN hashes

Stored(name, id) == StoredIn(pg_tables, redis_hashes, name, id)

Holds(name, id) == HoldsIn(pg_tables, redis_hashes, name, id)

upsert(authorization, x_tenant_id, collection, items) ==
    LET tenant == get_tenant_key(x_tenant_id)
        name == CollectionName(tenant, collection)
        denied == require_api_key(authorization)
        failed == vector_port = "pgvector" /\ ~PgVector_upsert_ok(pg_tables, name, items)
        status == IF denied # 0 THEN denied
                  ELSE IF ~VectorUpsertRequestValid(items) THEN 422
                  ELSE IF failed THEN 500 ELSE 200
    IN  /\ pg_tables' = IF status \in { 200, 500 } /\ vector_port = "pgvector"
                        THEN PgVector_upsert(pg_tables, name, items)
                        ELSE pg_tables
        /\ redis_hashes' = IF status = 200 /\ vector_port = "redis"
                           THEN RedisVector_upsert(redis_hashes, name, items)
                           ELSE redis_hashes
        /\ upserted' = IF status = 200
                       THEN upserted \cup { << tenant, collection, items[i].id >> :
                                              i \in 1..Len(items) }
                       ELSE upserted
        /\ last' = [Response("upsert", authorization, tenant, collection, items, status, << >>)
                      EXCEPT !.replaced =
                        status = 200 /\ \E i \in 1..Len(items) :
                            /\ Holds(name, items[i].id)
                            /\ Stored(name, items[i].id).embedding # items[i].embedding]
        /\ UNCHANGED << vector_port, chatVars, graphVars, depsVars, memVars >>

query(authorization, x_tenant_id, collection, body) ==
    LET tenant == get_tenant_key(x_tenant_id)
        name == CollectionName(tenant, collection)
        denied == require_api_key(authorization)
        failed == vector_port = "pgvector" /\ ~PgVector_query_ok(pg_tables, name, body.embedding)
        status == IF denied # 0 THEN denied ELSE IF failed THEN 500 ELSE 200
        answers == IF status # 200 THEN { << >> }
                   ELSE IF vector_port = "pgvector"
                        THEN PgVector_query(pg_tables, name, body.embedding, body.k)
                        ELSE RedisVector_query(redis_hashes, name, body.embedding, body.k)
    IN  /\ \E res \in answers :
              last' = Response("query", authorization, tenant, collection, body, status, res)
        /\ UNCHANGED << vectorVars, chatVars, graphVars, depsVars, memVars >>

(***************************************************************************)
(* Inputs of the vector specifications                                     *)
(***************************************************************************)
MaxK == 2
MaxBatch == 2

E1 == << 1, 0, 0, 0, 0, 0, 0, 0 >>
E2 == << 0, 1, 0, 0, 0, 0, 0, 0 >>
E3 == << 1, 1, 0, 0, 0, 0, 0, 0 >>
Short == << 1, 0 >>
M1 == << "title", "T" >>

Collections == { << "c" >> }
Ids == { << "x" >>, << "y" >> }
Embeddings == { E1, E2, E3 }
Metadatas == { None, M1 }
Schemas == { [dim |-> 8, metric |-> "cosine"], [dim |-> 9, metric |-> "cosine"] }

Item(id, e, m) == [id |-> id, embedding |-> e, metadata |-> m]

VecItems == { Item(id, e, m) : id \in Ids, e \in Embeddings \cup {Short}, m \in Metadatas }

BatchPool == { Item(<< "x" >>, E1, None), Item(<< "y" >>, E2, M1), Item(<< "y" >>, Short, None) }

SeqsUpTo(S, n) == UNION { [1..m -> S] : m \in 1..n }

VecBatches == { << it >> : it \in VecItems } \cup { b \in SeqsUpTo(BatchPool, MaxBatch) : Len(b) >= 2 }

Queries == { [embedding |-> e, k |-> k] : e \in Embeddings, k \in 1..MaxK }

InitVector ==
    /\ Init!2 /\ Init!3 /\ Init!4 /\ Init!5 /\ Init!6 /\ Init!7 /\ Init!8 /\ Init!9
    /\ Init!10 /\ Init!11 /\ Init!12 /\ Init!13 /\ Init!14
    /\ Init!15 /\ Init!16 /\ Init!17 /\ Init!18 /\ Init!19 /\ Init!20 /\ Init!21
    /\ Init!22 /\ Init!23 /\ Init!24
    /\ vector_port \in { "pgvector", "redis" }

NextVector ==
    \/ \E c \in Collections, s \in Schemas : put_collection(ValidAuth, None, c, s)
    \/ \E c \in Collections, b \in VecBatches : upsert(ValidAuth, None, c, b)
    \/ \E c \in Collections, q \in Queries : query(ValidAuth, None, c, q)

SpecVector == InitVector /\ [][NextVector]_vars

(***************************************************************************)
(* Vector requests of several tenants on the same collection name          *)
(***************************************************************************)
TenantHeaders == { None, << "b" >>, << "*" >> }

TenantItems == { Item(id, E1, None) : id \in Ids }

NextVectorTenants ==
    \/ \E t \in TenantHeaders, c \in Collections :
          put_collection(ValidAuth, t, c, [dim |-> 8, metric |-> "cosine"])
    \/ \E t \in TenantHeaders, c \in Collections, it \in TenantItems :
          upsert(ValidAuth, t, c, << it >>)
    \/ \E t \in TenantHeaders, c \in Collections, k \in 1..MaxK :
          query(ValidAuth, t, c, [embedding |-> E1, k |-> k])

SpecVectorTenants == InitVector /\ [][NextVectorTenants]_vars

\* C1: a query by a tenant on a collection never returns an item id that only
\* other tenants upserted into their collection of that name.
C1_VectorTenantIsolation ==
    (last.op = "query" /\ last.status = 200) =>
        \A j \in 1..Len(last.out) :
            ~ /\ << last.tenant, last.target, last.out[j].id >> \notin upserted
              /\ \E u \in upserted : u[1] # last.tenant /\ u[2] = last.target
                                     /\ u[3] = last.out[j].id

\* the last item a batch gives for an id
LastOf(items, i) == \A j \in (i + 1)..Len(items) : items[j].id # items[i].id

BatchIds(items) == { items[i].id : i \in 1..Len(items) }

\* C5: an upsert request holding an item whose embedding has fewer than 8
\* elements is answered 422 and changes nothing in either store, valid items
\* of the same batch included.
C5_ShortEmbeddingRejected ==
    [][ ( /\ last'.op = "upsert"
          /\ last'.auth = ValidAuth
          /\ \E i \in 1..Len(last'.body) : Len(last'.body[i].embedding) < 8 )
        => ( last'.status = 422 /\ pg_tables' = pg_tables /\ redis_hashes' = redis_hashes
             /\ upserted' = upserted ) ]_vars

\* a rejected batch of two that holds a valid item beside the short one, sent
\* to a collection that holds an item
C5_Witness ==
    /\ last.op = "upsert" /\ last.status = 422 /\ Len(last.body) = 2
    /\ \E i, j \in 1..2 : Len(last.body[i].embedding) < 8 /\ Len(last.body[j].embedding) >= 8
    /\ \E id \in Ids : Holds(CollectionName(last.tenant, last.target), id)

\* C6: after a served upsert the collection holds, under each id of the batch,
\* exactly the embedding and metadata the batch gave last for that id, and
\* what it holds under every other id is as before.
C6_UpsertReplacesById ==
    [][ (last'.op = "upsert" /\ last'.status = 200) =>
          LET name == CollectionName(last'.tenant, last'.target)
              items == last'.body
          IN  /\ \A i \in 1..Len(items) :
                    LastOf(items, i) =>
                        /\ HoldsIn(pg_tables', redis_hashes', name, items[i].id)
                        /\ StoredIn(pg_tables', redis_hashes', name, items[i].id)
                              = [embedding |-> items[i].embedding,
                                 metadata |-> items[i].metadata]
              /\ \A id \in Ids \ BatchIds(items) :
                    /\ HoldsIn(pg_tables', redis_hashes', name, id) = Holds(name, id)
                    /\ StoredIn(pg_tables', redis_hashes', name, id) = Stored(name, id) ]_vars

\* an upsert that replaced another embedding under its id, with metadata,
\* while the collection holds an item under another id
C6_Witness ==
    /\ last.op = "upsert" /\ last.status = 200 /\ last.replaced
    /\ \E i \in 1..Len(last.body) : last.body[i].metadata # None
    /\ \E id \in Ids \ BatchIds(last.body) : Holds(CollectionName(last.tenant, last.target), id)

\* C7: a query that follows a served upsert into the same collection, with the
\* embedding of an upserted item, returns that item's id with the highest
\* score of the results.
C7_UpsertThenQueryReturnsItem ==
    [][ ( /\ last.op = "upsert" /\ last.status = 200
          /\ last'.op = "query"
          /\ last'.tenant = last.tenant /\ last'.target = last.target )
        => \A i \in 1..Len(last.body) :
              (LastOf(last.body, i) /\ last.body[i].embedding = last'.body.embedding) =>
                  /\ last'.status = 200
                  /\ \E j \in 1..Len(last'.out) :
                        /\ last'.out[j].id = last.body[i].id
                        /\ \A m \in 1..Len(last'.out) :
                              ScoreGeq(last'.out[j].score, last'.out[m].score) ]_vars

\* the collection as ensure_collection left it with the adapter bound to the
\* port: the table of the name, or the schema hash of the name
EnsuredIn(tables, hashes, name) ==
    IF vector_port = "pgvector" THEN name \in DOMAIN tables
    ELSE SchemaKey(name) \in DOMAIN hashes

DimIn(tables, hashes, name) ==
    IF vector_port = "pgvector" THEN tables[name].dim ELSE hashes[SchemaKey(name)].dim

\* C16: an ensure_collection on an existing collection changes nothing when
\* the schema is the one the collection has, and fails, the collection's dim
\* and items unchanged, when the dim is another.
C16_EnsureCollectionVerifies ==
    [][ ( /\ last'.op = "put_collection" /\ last'.auth = ValidAuth
          /\ EnsuredIn(pg_tables, redis_hashes, CollectionName(last'.tenant, last'.target)) )
        => LET name == CollectionName(last'.tenant, last'.target)
           IN  /\ pg_tables' = pg_tables /\ redis_hashes' = redis_hashes
               /\ IF last'.body.dim = DimIn(pg_tables, redis_hashes, name)
                  THEN last'.status = 200
                  ELSE last'.status # 200 ]_vars

\* C17: an upsert into a collection that ensure_collection never made stores
\* nothing under the collection's name, and a query on a collection that
\* ensure_collection never made returns no item that was upserted into it.
C17_UpsertCreatesNoCollection ==
    [][ LET name == CollectionName(last'.tenant, last'.target)
        IN  /\ ( /\ last'.op = "upsert"
                  /\ ~EnsuredIn(pg_tables, redis_hashes, name) )
                => /\ ~EnsuredIn(pg_tables', redis_hashes', name)
                   /\ \A id \in Ids : ~HoldsIn(pg_tables', redis_hashes', name, id)
            /\ ( /\ last'.op = "query" /\ last'.status = 200
                  /\ ~EnsuredIn(pg_tables, redis_hashes, name) )
                => \A j \in 1..Len(last'.out) :
                      << last'.tenant, last'.target, last'.out[j].id >> \notin upserted ]_vars

\* C18: a query on a collection that ensure_collection never made fails: it
\* is not answered with a result list.
C18_QueryMissingCollectionFails ==
    [][ ( /\ last'.op = "query" /\ last'.auth = ValidAuth
          /\ ~EnsuredIn(pg_tables, redis_hashes, CollectionName(last'.tenant, last'.target)) )
        => last'.status # 200 ]_vars

(***************************************************************************)
(* Tenant headers and collection path segments that contain ':'           *)
(***************************************************************************)
NameTenants == { << "a" >>, << "a", ":", "b" >> }

NameCollections == { << "c" >>, << "b", ":", "c" >> }

NextVectorNames ==
    \/ \E t \in NameTenants, c \in NameCollections :
          put_collection(ValidAuth, t, c, [dim |-> 8, metric |-> "cosine"])
    \/ \E t \in NameTenants, c \in NameCollections, it \in TenantItems :
          upsert(ValidAuth, t, c, << it >>)
    \/ \E t \in NameTenants, c \in NameCollections, k \in 1..MaxK :
          query(ValidAuth, t, c, [embedding |-> E1, k |-> k])

SpecVectorNames == InitVector /\ [][NextVectorNames]_vars

\* C23: two upserts that reach the adapter under the same collection name
\* come from the same tenant and the same collection path segment, and a
\* query never returns an id that only other tenants upserted.
C23_CollectionNameInjective ==
    /\ \A u, v \in upserted :
          CollectionName(u[1], u[2]) = CollectionName(v[1], v[2])
              => u[1] = v[1] /\ u[2] = v[2]
    /\ (last.op = "query" /\ last.status = 200) =>
          \A j \in 1..Len(last.out) :
              \E u \in upserted : u[1] = last.tenant /\ u[3] = last.out[j].id

(***************************************************************************)
(* Queries on collections of every metric, over items of several norms     *)
(***************************************************************************)
E4 == << 3, 0, 0, 0, 0, 0, 0, 0 >>

RankIds == { << "x" >>, << "y" >>, << "n", ":", "x" >> }

RankEmbeddings == { E1, E3, E4 }

Metrics == { "cosine", "l2", "ip" }

NextVectorRank ==
    \/ \E c \in Collections, mt \in Metrics :
          put_collection(ValidAuth, None, c, [dim |-> 8, metric |-> mt])
    \/ \E c \in Collections, id \in RankIds, e \in RankEmbeddings :
          upsert(ValidAuth, None, c, << Item(id, e, None) >>)
    \/ \E c \in Collections, k \in 1..MaxK :
          query(ValidAuth, None, c, [embedding |-> E1, k |-> k])

SpecVectorRank == InitVector /\ [][NextVectorRank]_vars

\* a is nearer to q than b is, under the metric
MoreSimilar(metric, a, b, q) ==
    CASE metric = "l2" -> L2Squared(a, q) < L2Squared(b, q)
      [] metric = "ip" -> Dot(a, q) > Dot(b, q)
      [] OTHER -> ~ScoreGeq(Cosine(b, q), Cosine(a, q))

OutIds == { last.out[i].id : i \in 1..Len(last.out) }

ScoresDescend == \A i, j \in 1..Len(last.out) : i < j => ScoreGeq(last.out[i].score, last.out[j].score)

\* C24: a query answered by the relational adapter returns min(k, size of
\* the collection) items, no item left out is more similar to the query,
\* under the collection's metric, than an item returned, and the returned
\* scores do not increase along the list.
C24_PgQueryTopKByMetric ==
    (vector_port = "pgvector" /\ last.op = "query" /\ last.status = 200) =>
        LET name == CollectionName(last.tenant, last.target)
            rows == pg_tables[name].rows
        IN  /\ Len(last.out) = Min2(last.body.k, Cardinality(DOMAIN rows))
            /\ OutIds \subseteq DOMAIN rows
            /\ \A id \in DOMAIN rows \ OutIds : \A got \in OutIds :
                  ~MoreSimilar(pg_tables[name].metric, rows[id].embedding,
                               rows[got].embedding, last.body.embedding)
            /\ ScoresDescend

\* C25: a query answered by the key/value adapter returns min(k, size of the
\* collection) items in descending order of cosine similarity, each under an
\* id that was upserted into the collection, and no upserted item left out
\* has a higher score than an item returned.
C25_RedisQueryTopK ==
    (vector_port = "redis" /\ last.op = "query" /\ last.status = 200) =>
        LET name == CollectionName(last.tenant, last.target)
            ids == { u[3] : u \in { v \in upserted : v[1] = last.tenant /\ v[2] = last.target } }
            Score(id) == _cosine_similarity(last.body.embedding, Stored(name, id).embedding)
        IN  /\ Len(last.out) = Min2(last.body.k, Cardinality(ids))
            /\ OutIds \subseteq ids
            /\ \A i \in 1..Len(last.out) : last.out[i].score = Score(last.out[i].id)
            /\ \A id \in ids \ OutIds : \A i \in 1..Len(last.out) :
                  ScoreGeq(last.out[i].score, Score(id))
            /\ ScoresDescend

(***************************************************************************)
(* Batches whose items are not all of the collection's dimension           *)
(***************************************************************************)
E9 == << 0, 1, 0, 0, 0, 0, 0, 0, 0 >>

MixedPool ==
    { Item(<< "x" >>, E1, None), Item(<< "x" >>, E3, None),
      Item(<< "y" >>, E2, None), Item(<< "y" >>, E9, None) }

NextVectorBatch ==
    \/ \E c \in Collections : put_collection(ValidAuth, None, c, [dim |-> 8, metric |-> "cosine"])
    \/ \E c \in Collections, b \in SeqsUpTo(MixedPool, MaxBatch) : upsert(ValidAuth, None, c, b)
    \/ \E c \in Collections, k \in 1..MaxK :
          query(ValidAuth, None, c, [embedding |-> E1, k |-> k])

SpecVectorBatch == InitVector /\ [][NextVectorBatch]_vars

\* C26: an upsert through the relational adapter that fails on the write of
\* an item leaves every collection as it was before the call.
C26_PgUpsertAllOrNothing ==
    [][ (vector_port = "pgvector" /\ last'.op = "upsert" /\ last'.status = 500)
            => pg_tables' = pg_tables ]_vars

\* a failed batch of two whose first item could be written and differs from
\* what the collection, which is not empty, holds under its id
C26_Witness ==
    LET name == CollectionName(last.tenant, last.target)
    IN  /\ vector_port = "pgvector" /\ last.op = "upsert" /\ last.status = 500
        /\ Len(last.body) = 2
        /\ name \in DOMAIN pg_tables
        /\ DOMAIN pg_tables[name].rows # {}
        /\ Len(last.body[1].embedding) = pg_tables[name].dim
        /\ Len(last.body[2].embedding) # pg_tables[name].dim
        /\ \/ ~Holds(name, last.body[1].id)
           \/ Stored(name, last.body[1].id).embedding # last.body[1].embedding

(***************************************************************************)
(* PostgresChatAdapter (adapters/chat/postgres_adapter.py)                 *)
(* A timestamp is << "ts", instant >>.  now() is the clock's value at the  *)
(* request; the BIGSERIAL id of a row is the number of the insert.         *)
(***************************************************************************)
Instant(t) == << "ts", t >>

\* INSERT INTO threads(id, tenant) ... ON CONFLICT (id) DO NOTHING
PostgresChat_thread(threads, thread_id, message) ==
    IF thread_id \in DOMAIN threads THEN threads
    ELSE [t \in DOMAIN threads \cup {thread_id} |->
            IF t = thread_id THEN message.tenant ELSE threads[t]]

\* INSERT INTO messages ...: ts is DEFAULT now() when the message has none
PostgresChat_append(messages, thread_id, message, now, id) ==
    messages \cup { [id |-> id, thread_id |-> thread_id, tenant |-> message.tenant,
                     ts |-> IF message.ts = None THEN Instant(now) ELSE message.ts,
                     role |-> message.role, content |-> message.content] }

ThreadRows(messages, thread_id) == { r \in messages : r.thread_id = thread_id }

\* LIMIT must not be negative
PostgresChat_list_ok(limit) == limit >= 0

\* SELECT ts, role, content FROM messages WHERE thread_id=:tid ORDER BY ts DESC LIMIT :lim
\* every list the statement can return: rows of one ts come in any order.
\* n is a history label (the number of the append that stored the message).
PostgresChat_list(messages, thread_id, limit) ==
    { [i \in 1..Min2(limit, Len(o)) |->
            [ts |-> o[i].ts, role |-> o[i].role, content |-> o[i].content, n |-> o[i].id]] :
        o \in { p \in Orders(ThreadRows(messages, thread_id)) :
                  \A i, j \in 1..Len(p) : i < j => p[i].ts[2] >= p[j].ts[2] } }

PostgresChat_truncate_AllThreads(messages, thread_id, keep_last_n) == {}

\* DELETE FROM messages WHERE thread_id=:tid
PostgresChat_truncate(messages, thread_id, keep_last_n) ==
    { r \in messages : r.thread_id # thread_id }

\* res.rowcount
PostgresChat_truncate_result(messages, thread_id, keep_last_n) ==
    Cardinality(ThreadRows(messages, thread_id))

(***************************************************************************)
(* RedisChatAdapter (adapters/chat/redis_adapter.py)                       *)
(***************************************************************************)
ChatKey(thread_id) ==
    << "c", "h", "a", "t", ":", "t", "h", "r", "e", "a", "d", ":" >> \o thread_id
        \o << ":", "m", "e", "s", "s", "a", "g", "e", "s" >>

\* the list under a key; a key that is absent is the empty list
ListAt(lists, key) == IF key \in DOMAIN lists THEN lists[key] ELSE << >>

\* a key holds a list only while the list is not empty
SetList(lists, key, l) ==
    IF l = << >> THEN [k \in DOMAIN lists \ {key} |-> lists[k]]
    ELSE [k \in DOMAIN lists \cup {key} |-> IF k = key THEN l ELSE lists[k]]

RPush(lists, key, v) == SetList(lists, key, ListAt(lists, key) \o << v >>)

LPush(lists, key, v) == SetList(lists, key, << v >> \o ListAt(lists, key))

\* the elements from index start to index stop (0-based, inclusive; a negative
\* index counts from the end)
Range(l, start, stop) ==
    LET from == IF start < 0 THEN (IF Len(l) + start < 0 THEN 0 ELSE Len(l) + start) ELSE start
        to == IF stop < 0 THEN Len(l) + stop ELSE Min2(stop, Len(l) - 1)
    IN  IF from > to THEN << >> ELSE SubSeq(l, from + 1, to + 1)

LRange(lists, key, start, stop) == Range(ListAt(lists, key), start, stop)

LTrim(lists, key, start, stop) == SetList(lists, key, Range(ListAt(lists, key), start, stop))

LLen(lists, key) == Len(ListAt(lists, key))

\* the element pushed: the serialized message, and the history label n
RedisChat_append(lists, thread_id, message, n) ==
    LPush(lists, ChatKey(thread_id),
          << "json",
             [role |-> message.role, content |-> message.content, ts |-> message.ts,
              tenant |-> message.tenant],
             n >>)

RedisChat_list(lists, thread_id, limit) ==
    LET raw_messages == LRange(lists, ChatKey(thread_id), 0, limit - 1)
    IN  [i \in 1..Len(raw_messages) |->
            [ts |-> json_loads(raw_messages[i]).ts,
             role |-> json_loads(raw_messages[i]).role,
             content |-> json_loads(raw_messages[i]).content,
             n |-> raw_messages[i][3]]]

\* the command that follows the llen, len being what llen answered:
\* delete(key), or ltrim(key, 0, keep_last_n - 1) when len > keep_last_n
RedisChat_truncate_write(lists, thread_id, keep_last_n, len) ==
    IF keep_last_n = 0 THEN SetList(lists, ChatKey(thread_id), << >>)
    ELSE IF len > keep_last_n
         THEN LTrim(lists, ChatKey(thread_id), 0, keep_last_n - 1)
         ELSE lists

\* the value returned, len being what llen answered
RedisChat_truncate_return(keep_last_n, len) ==
    IF keep_last_n = 0 THEN len
    ELSE IF len > keep_last_n THEN len - keep_last_n
    ELSE 0

\* a truncate that no other command interleaves
RedisChat_truncate(lists, thread_id, keep_last_n) ==
    RedisChat_truncate_write(lists, thread_id, keep_last_n, LLen(lists, ChatKey(thread_id)))

RedisChat_truncate_result(lists, thread_id, keep_last_n) ==
    RedisChat_truncate_return(keep_last_n, LLen(lists, ChatKey(thread_id)))

(***************************************************************************)
(* Chat routes (routers/chat.py) and the port's truncate                   *)
(***************************************************************************)
MaxAppends == 3
LimitLe == 500

\* the appends that stored the messages a thread holds
HeldIn(messages, lists, thread_id) ==
    IF chat_port = "postgres"
    THEN { r.id : r \in ThreadRows(messages, thread_id) }
    ELSE { ListAt(lists, ChatKey(thread_id))[i][3] :
             i \in 1..Len(ListAt(lists, ChatKey(thread_id))) }

Held(thread_id) == HeldIn(pg_messages, redis_lists, thread_id)

\* what a thread holds, as stored
ContentIn(messages, lists, thread_id) ==
    IF chat_port = "postgres" THEN ThreadRows(messages, thread_id)
    ELSE ListAt(lists, ChatKey(thread_id))

Content(thread_id) == ContentIn(pg_messages, redis_lists, thread_id)

CutOf(thread_id) ==
    IF thread_id \in DOMAIN cut THEN cut[thread_id] ELSE [at |-> 0, dirty |-> FALSE]

\* the cut of a thread after a truncate that left it holding `after`
CutAfter(thread_id, after) ==
    LET new == IF after = Held(thread_id) THEN CutOf(thread_id)
               ELSE IF after = {} THEN [at |-> clock, dirty |-> FALSE]
               ELSE [at |-> CutOf(thread_id).at, dirty |-> TRUE]
    IN  [t \in DOMAIN cut \cup {thread_id} |-> IF t = thread_id THEN new ELSE cut[t]]

append(authorization, x_tenant_id, thread_id, body) ==
    LET tenant == get_tenant_key(x_tenant_id)
        denied == require_api_key(authorization)
        status == IF denied # 0 THEN denied ELSE 200
        msg == [role |-> body.role, content |-> body.content, ts |-> body.ts,
                tenant |-> tenant]
    IN  /\ clock < MaxAppends
        /\ clock' = IF status = 200 THEN clock + 1 ELSE clock
        /\ pg_threads' = IF status = 200 /\ chat_port = "postgres"
                         THEN PostgresChat_thread(pg_threads, thread_id, msg)
                         ELSE pg_threads
        /\ pg_messages' = IF status = 200 /\ chat_port = "postgres"
                          THEN PostgresChat_append(pg_messages, thread_id, msg, clock', clock')
                          ELSE pg_messages
        /\ redis_lists' = IF status = 200 /\ chat_port = "redis"
                          THEN RedisChat_append(redis_lists, thread_id, msg, clock')
                          ELSE redis_lists
        /\ appended' = IF status = 200
                       THEN Append(appended, [thread |-> thread_id, tenant |-> tenant,
                                              given |-> body.ts # None])
                       ELSE appended
        /\ last' = Response("append", authorization, tenant, thread_id, body, status, << >>)
        /\ UNCHANGED << chat_port, cut, trunc, vectorVars, graphVars, depsVars, memVars >>

list_messages(authorization, x_tenant_id, thread_id, limit) ==
    LET tenant == get_tenant_key(x_tenant_id)
        denied == require_api_key(authorization)
        failed == chat_port = "postgres" /\ ~PostgresChat_list_ok(limit)
        status == IF denied # 0 THEN denied
                  ELSE IF limit > LimitLe THEN 422
                  ELSE IF failed THEN 500 ELSE 200
        answers == IF status # 200 THEN { << >> }
                   ELSE IF chat_port = "postgres"
                        THEN PostgresChat_list(pg_messages, thread_id, limit)
                        ELSE { RedisChat_list(redis_lists, thread_id, limit) }
    IN  /\ \E res \in answers :
              last' = Response("list", authorization, tenant, thread_id, limit, status, res)
        /\ UNCHANGED << chatVars, vectorVars, graphVars, depsVars, memVars >>

truncate(thread_id, keep_last_n) ==
    /\ pg_messages' = IF chat_port = "postgres"
                      THEN PostgresChat_truncate(pg_messages, thread_id, keep_last_n)
                      ELSE pg_messages
    /\ redis_lists' = IF chat_port = "redis"
                      THEN RedisChat_truncate(redis_lists, thread_id, keep_last_n)
                      ELSE redis_lists
    /\ last' = Response("truncate", None, None, thread_id, keep_last_n, 200,
                        IF chat_port = "postgres"
                        THEN PostgresChat_truncate_result(pg_messages, thread_id, keep_last_n)
                        ELSE RedisChat_truncate_result(redis_lists, thread_id, keep_last_n))
    /\ cut' = CutAfter(thread_id, HeldIn(pg_messages', redis_lists', thread_id))
    /\ UNCHANGED << chat_port, pg_threads, clock, appended, trunc, vectorVars, graphVars, depsVars, memVars >>

\* RedisChatAdapter.truncate, command by command: the llen ...
truncate_llen(thread_id, keep_last_n) ==
    /\ chat_port = "redis"
    /\ trunc.pc = "idle"
    /\ trunc' = [pc |-> "llen", thread_id |-> thread_id, keep_last_n |-> keep_last_n,
                 len |-> LLen(redis_lists, ChatKey(thread_id))]
    /\ UNCHANGED << chat_port, pg_messages, pg_threads, redis_lists, clock, appended, cut,
                    last, vectorVars, graphVars, depsVars, memVars >>

\* ... and the delete or ltrim, and the return
truncate_write ==
    /\ trunc.pc = "llen"
    /\ redis_lists' = RedisChat_truncate_write(redis_lists, trunc.thread_id,
                                               trunc.keep_last_n, trunc.len)
    /\ last' = Response("truncate", None, None, trunc.thread_id, trunc.keep_last_n, 200,
                        RedisChat_truncate_return(trunc.keep_last_n, trunc.len))
    /\ cut' = CutAfter(trunc.thread_id, HeldIn(pg_messages, redis_lists', trunc.thread_id))
    /\ trunc' = NoTruncate
    /\ UNCHANGED << chat_port, pg_messages, pg_threads, clock, appended,
                    vectorVars, graphVars, depsVars, memVars >>

(***************************************************************************)
(* Inputs of the chat specifications                                       *)
(***************************************************************************)
MaxLimit == 3
MaxKeep == 2

Threads == { << "t" >>, << "u" >> }

ChatMessage(ts) == [role |-> "user", content |-> "Hello, world!", ts |-> ts]

ChatMessages == { ChatMessage(None), ChatMessage(Instant(0)) }

Limits == 1..MaxLimit \cup { LimitLe + 1 }

InitChat ==
    /\ Init!1 /\ Init!2 /\ Init!3 /\ Init!4 /\ Init!6 /\ Init!7 /\ Init!8 /\ Init!9
    /\ Init!10 /\ Init!11 /\ Init!12 /\ Init!13 /\ Init!14
    /\ Init!15 /\ Init!16 /\ Init!17 /\ Init!18 /\ Init!19 /\ Init!20 /\ Init!21
    /\ Init!22 /\ Init!23 /\ Init!24
    /\ chat_port \in { "postgres", "redis" }

NextChat ==
    \/ \E t \in Threads, m \in ChatMessages : append(ValidAuth, None, t, m)
    \/ \E t \in Threads, l \in Limits : list_messages(ValidAuth, None, t, l)
    \/ \E t \in Threads, k \in 0..MaxKeep : truncate(t, k)

SpecChat == InitChat /\ [][NextChat]_vars

NextChatTenants ==
    \/ \E x \in { None, << "b" >> } : append(ValidAuth, x, << "t" >>, ChatMessage(None))
    \/ \E x \in { None, << "b" >> }, l \in Limits : list_messages(ValidAuth, x, << "t" >>, l)

SpecChatTenants == InitChat /\ [][NextChatTenants]_vars

\* C2: a list request returns only messages that the requesting tenant appended.
C2_ChatTenantIsolation ==
    (last.op = "list" /\ last.status = 200) =>
        \A j \in 1..Len(last.out) : appended[last.out[j].n].tenant = last.tenant

\* the appends to a thread since it was last empty
Log(thread_id) ==
    { n \in 1..Len(appended) : appended[n].thread = thread_id /\ n > CutOf(thread_id).at }

\* C8: when a thread holds N messages appended without a timestamp since it
\* was last empty, and nothing was truncated between, list(limit=N) returns
\* the N messages, the one appended last first.
C8_ListNewestFirst ==
    ( /\ last.op = "list" /\ last.status = 200
      /\ Log(last.target) # {}
      /\ ~CutOf(last.target).dirty
      /\ \A n \in Log(last.target) : ~appended[n].given
      /\ last.body = Cardinality(Log(last.target)) )
    => /\ Len(last.out) = last.body
       /\ { last.out[i].n : i \in 1..Len(last.out) } = Log(last.target)
       /\ \A i, j \in 1..Len(last.out) : i < j => last.out[i].n > last.out[j].n

\* a served list of all of two or more messages appended without a timestamp
C8_Witness ==
    /\ last.op = "list" /\ last.status = 200
    /\ ~CutOf(last.target).dirty
    /\ \A n \in Log(last.target) : ~appended[n].given
    /\ last.body = Cardinality(Log(last.target))
    /\ last.body >= 2
    /\ Len(last.out) = last.body

\* the k largest elements of a set of numbers
Newest(S, k) == { n \in S : Cardinality({ m \in S : m > n }) < k }

\* C9: truncate(thread, keep_last_n=k) on a thread that holds N > k > 0
\* messages leaves exactly the k messages appended last.
C9_TruncateKeepsNewest ==
    [][ ( /\ last'.op = "truncate"
          /\ last'.body > 0
          /\ last'.body < Cardinality(Held(last'.target)) )
        => HeldIn(pg_messages', redis_lists', last'.target)
             = Newest(Held(last'.target), last'.body) ]_vars

\* C10: truncate(thread, keep_last_n=0) returns the number of messages the
\* thread held and leaves it empty, what the other threads hold is unchanged,
\* and a list of the thread that follows returns no message.
C10_TruncateZeroEmpties ==
    [][ /\ (last'.op = "truncate" /\ last'.body = 0) =>
              /\ last'.out = Cardinality(Held(last'.target))
              /\ HeldIn(pg_messages', redis_lists', last'.target) = {}
              /\ \A u \in Threads \ {last'.target} :
                    ContentIn(pg_messages', redis_lists', u) = Content(u)
        /\ ( /\ last.op = "truncate" /\ last.body = 0
             /\ last'.op = "list" /\ last'.target = last.target /\ last'.status = 200 )
           => last'.out = << >> ]_vars

\* a truncation to nothing of a thread that held two messages or more, while
\* another thread holds a message
C10_Witness ==
    /\ last.op = "truncate" /\ last.body = 0 /\ last.out >= 2
    /\ Held(last.target) = {}
    /\ \E u \in Threads \ {last.target} : Held(u) # {}

(***************************************************************************)
(* List requests with every limit the route accepts                        *)
(***************************************************************************)
\* Query(default=50, le=500): no lower bound
RouteLimits == { -1, 0 } \cup 1..MaxLimit

NextChatLimits ==
    \/ \E t \in Threads : append(ValidAuth, None, t, ChatMessage(None))
    \/ \E t \in Threads, l \in RouteLimits : list_messages(ValidAuth, None, t, l)

SpecChatLimits == InitChat /\ [][NextChatLimits]_vars

\* C21: a served list(thread, limit) returns at most limit messages (none
\* when limit is not positive), and they are the ones appended last.
C21_ListAtMostLimit ==
    (last.op = "list" /\ last.status = 200) =>
        /\ Len(last.out) <= (IF last.body > 0 THEN last.body ELSE 0)
        /\ { last.out[i].n : i \in 1..Len(last.out) }
             = Newest(Held(last.target), Len(last.out))

\* C22: list returns no message whose ts is null.
C22_ListedMessagesHaveTs ==
    (last.op = "list" /\ last.status = 200) =>
        \A i \in 1..Len(last.out) : last.out[i].ts # None

(***************************************************************************)
(* Neo4jAdapter (adapters/graph/neo4j_adapter.py)                          *)
(* A node is [nid, props]; props holds id, tenant and type with the        *)
(* entity's own properties.  A relationship is [src, dst, type, props].    *)
(***************************************************************************)
NeighborsLimit == 100

NoProps == << >>

\* JSON null: the props of a body that gives none (model_dump keeps the key)
NullProps == [null |-> TRUE]

IsNull(props) == "null" \in DOMAIN props

\* props or {}
PropsOrEmpty(props) == IF IsNull(props) THEN NoProps ELSE props

\* rel_type None, or empty: a pattern without a relationship type
AnyRel == ""

\* SET e += props
Merge(a, b) ==
    [k \in DOMAIN a \cup DOMAIN b |-> IF k \in DOMAIN b THEN b[k] ELSE a[k]]

\* the identity the engine gives a node it creates: the first one free
NextNid(ns) == Smallest({ i \in 1..(Cardinality(ns) + 1) : \A n \in ns : n.nid # i })

\* MERGE (e:Entity {id:$id, tenant:$tenant})
\*   ON MATCH SET e += $props ON CREATE SET e.type=$type, e += $props
Neo4j_upsert_entity(ns, entity) ==
    LET matched == { n \in ns : n.props.id = entity.id /\ n.props.tenant = entity.tenant }
    IN  IF matched = {}
        THEN ns \cup { [nid |-> NextNid(ns),
                        props |-> Merge([id |-> entity.id, tenant |-> entity.tenant,
                                         type |-> entity.type], entity.props)] }
        ELSE { IF n \in matched THEN [n EXCEPT !.props = Merge(@, entity.props)] ELSE n :
                 n \in ns }

\* MATCH (a:Entity{id:$src}),(b:Entity{id:$dst})
RelatePairs(ns, src, dst) ==
    { << a.nid, b.nid >> : a \in { n \in ns : n.props.id = src },
                           b \in { n \in ns : n.props.id = dst } }

\* CREATE in the place of MERGE: a relationship more with every call
Neo4j_relate_Create(ns, es, src, dst, rel_type, props) ==
    es \cup { [src |-> q[1], dst |-> q[2], type |-> rel_type, props |-> PropsOrEmpty(props)] :
               q \in RelatePairs(ns, src, dst) }

\* MERGE (a)-[r:`rel_type`]->(b) SET r += $props, for every pair matched,
\* with props or {} for $props
Neo4j_relate(ns, es, src, dst, rel_type, props) ==
    LET pairs == RelatePairs(ns, src, dst)
        given == PropsOrEmpty(props)
        Hit(e) == << e.src, e.dst >> \in pairs /\ e.type = rel_type
    IN  { IF Hit(e) THEN [e EXCEPT !.props = Merge(@, given)] ELSE e : e \in es }
        \cup { [src |-> q[1], dst |-> q[2], type |-> rel_type, props |-> given] :
                 q \in { r \in pairs :
                           ~\E e \in es : e.src = r[1] /\ e.dst = r[2] /\ e.type = rel_type } }

\* (a)-[r]-(n): a relationship joins them, in either direction
Adjacent(es, a, n) ==
    \E e \in es : (e.src = a.nid /\ e.dst = n.nid) \/ (e.dst = a.nid /\ e.src = n.nid)

\* (a)-[r:`rel_type`]-(n), the type left out of the pattern when rel_type is not given
AdjacentBy(es, a, n, rel_type) ==
    \E e \in es : /\ rel_type = AnyRel \/ e.type = rel_type
                  /\ (e.src = a.nid /\ e.dst = n.nid) \/ (e.dst = a.nid /\ e.src = n.nid)

\* MATCH (a:Entity{id:$id})-[r{rel}]-(n) RETURN DISTINCT n.id AS id, labels(n) AS labels
\*   LIMIT 100
\* every set of rows the statement can return; the pattern is one relationship
\* long whatever depth is
Neo4j_neighbors(ns, es, node_id, rel_type, depth) ==
    LET rows == { [id |-> n.props.id, labels |-> << "Entity" >>] :
                    n \in { m \in ns : \E a \in ns : /\ a.props.id = node_id
                                                     /\ AdjacentBy(es, a, m, rel_type) } }
    IN  IF Cardinality(rows) <= NeighborsLimit THEN { rows }
        ELSE { r \in SUBSET rows : Cardinality(r) = NeighborsLimit }

\* the nodes MATCH (e:Entity {id:$id}) finds
Matched(ns, entity_id) == { n.nid : n \in { m \in ns : m.props.id = entity_id } }

\* DELETE in the place of DETACH DELETE, the relationships left behind
Neo4j_delete_entity_NoDetach(ns, es, entity_id) ==
    [nodes |-> { n \in ns : n.nid \notin Matched(ns, entity_id) },
     edges |-> es]

\* MATCH (e:Entity {id:$id}) DETACH DELETE e
Neo4j_delete_entity(ns, es, entity_id) ==
    [nodes |-> { n \in ns : n.nid \notin Matched(ns, entity_id) },
     edges |-> { e \in es : e.src \notin Matched(ns, entity_id)
                            /\ e.dst \notin Matched(ns, entity_id) }]

\* the relationship type left out of the pattern
Neo4j_delete_relation_AnyType(ns, es, src, dst, rel_type) ==
    { e \in es : << e.src, e.dst >> \notin RelatePairs(ns, src, dst) }

\* MATCH (a:Entity{id:$src})-[r:`rel_type`]->(b:Entity{id:$dst}) DELETE r
Neo4j_delete_relation(ns, es, src, dst, rel_type) ==
    { e \in es : ~(e.type = rel_type /\ << e.src, e.dst >> \in RelatePairs(ns, src, dst)) }

(***************************************************************************)
(* Graph routes (routers/graph.py)                                         *)
(***************************************************************************)
\* the body's props reach SET e += $props as they are, null when the body gave
\* none (entity.get("props", {}) finds the key).  What the engine does with a
\* null there is its own: the properties stay as they are, or the statement
\* fails, and the failure is raised to the caller (500) or dropped when the
\* session closes (200)
upsert_entity(authorization, x_tenant_id, body) ==
    LET tenant == get_tenant_key(x_tenant_id)
        denied == require_api_key(authorization)
        e == [id |-> body.id, type |-> body.type, props |-> PropsOrEmpty(body.props),
              tenant |-> tenant]
        done == [ns |-> Neo4j_upsert_entity(nodes, e), status |-> 200]
        outcomes == IF denied # 0 THEN { [ns |-> nodes, status |-> denied] }
                    ELSE IF IsNull(body.props)
                         THEN { done, [ns |-> nodes, status |-> 500],
                                [ns |-> nodes, status |-> 200] }
                    ELSE { done }
    IN  /\ \E o \in outcomes :
              /\ nodes' = o.ns
              /\ last' = Response("upsert_entity", authorization, tenant, body.id, body,
                                  o.status, IF o.status = 200 THEN [ok |-> TRUE] ELSE << >>)
        /\ UNCHANGED << edges, vectorVars, chatVars, depsVars, memVars >>

relate(authorization, x_tenant_id, body) ==
    LET tenant == get_tenant_key(x_tenant_id)
        denied == require_api_key(authorization)
        status == IF denied # 0 THEN denied ELSE 200
    IN  /\ edges' = IF status = 200
                    THEN Neo4j_relate(nodes, edges, body.src_id, body.dst_id, body.rel_type,
                                      body.props)
                    ELSE edges
        /\ last' = [Response("relate", authorization, tenant, body.src_id, body, status,
                             IF status = 200 THEN [ok |-> TRUE] ELSE << >>)
                      EXCEPT !.replaced =
                        status = 200 /\ \E e \in edges : /\ e \notin edges'
                                                          /\ DOMAIN e.props # {}]
        /\ UNCHANGED << nodes, vectorVars, chatVars, depsVars, memVars >>

neighbors(authorization, x_tenant_id, node_id) ==
    LET tenant == get_tenant_key(x_tenant_id)
        denied == require_api_key(authorization)
        status == IF denied # 0 THEN denied ELSE 200
        answers == IF status # 200 THEN { {} } ELSE Neo4j_neighbors(nodes, edges, node_id, AnyRel, 1)
    IN  /\ \E res \in answers :
              last' = Response("neighbors", authorization, tenant, node_id, << >>, status, res)
        /\ UNCHANGED << graphVars, vectorVars, chatVars, depsVars, memVars >>

(***************************************************************************)
(* Calls of the graph port that no route makes                             *)
(***************************************************************************)
graph_neighbors(node_id, rel_type, depth) ==
    /\ \E res \in Neo4j_neighbors(nodes, edges, node_id, rel_type, depth) :
          last' = Response("graph_neighbors", None, None, node_id,
                           [rel_type |-> rel_type, depth |-> depth], 200, res)
    /\ UNCHANGED << graphVars, vectorVars, chatVars, depsVars, memVars >>

delete_entity(entity_id) ==
    /\ nodes' = Neo4j_delete_entity(nodes, edges, entity_id).nodes
    /\ edges' = Neo4j_delete_entity(nodes, edges, entity_id).edges
    /\ last' = [Response("delete_entity", None, None, entity_id, << >>, 200, 1)
                  EXCEPT !.replaced = edges' # edges]
    /\ UNCHANGED << vectorVars, chatVars, depsVars, memVars >>

delete_relation(src, dst, rel_type) ==
    /\ edges' = Neo4j_delete_relation(nodes, edges, src, dst, rel_type)
    /\ last' = [Response("delete_relation", None, None, src,
                         [src_id |-> src, dst_id |-> dst, rel_type |-> rel_type], 200, 1)
                  EXCEPT !.replaced = edges' # edges]
    /\ UNCHANGED << nodes, vectorVars, chatVars, depsVars, memVars >>

(***************************************************************************)
(* Graph requests of two tenants on the same entity ids                     *)
(***************************************************************************)
EntityIds == { << "x" >>, << "y" >> }

Entities == { [id |-> i, type |-> "person", props |-> NoProps] : i \in EntityIds }

Relations == { [src_id |-> a, dst_id |-> b, rel_type |-> "works_at", props |-> NoProps] :
                 a, b \in EntityIds }

GraphTenants == { None, << "b" >> }

NextGraphTenants ==
    \/ \E x \in GraphTenants, e \in Entities : upsert_entity(ValidAuth, x, e)
    \/ \E x \in GraphTenants, r \in Relations : relate(ValidAuth, x, r)
    \/ \E x \in GraphTenants, i \in EntityIds : neighbors(ValidAuth, x, i)

SpecGraphTenants == Init /\ [][NextGraphTenants]_vars

NodeOf(ns, nid) == CHOOSE n \in ns : n.nid = nid

Owns(tenant, id) == \E n \in nodes : n.props.id = id /\ n.props.tenant = tenant

\* C3: when the requesting tenant has entities under the ids it names, a
\* relate request creates or changes no relationship that touches an entity
\* of another tenant, and a neighbors request returns only nodes adjacent to
\* the requesting tenant's entity of the id asked for.
C3_GraphTenantIsolation ==
    [][ /\ ( /\ last'.op = "relate" /\ last'.status = 200
             /\ Owns(last'.tenant, last'.body.src_id)
             /\ Owns(last'.tenant, last'.body.dst_id) ) =>
              \A e \in edges' \ edges :
                  /\ NodeOf(nodes, e.src).props.tenant = last'.tenant
                  /\ NodeOf(nodes, e.dst).props.tenant = last'.tenant
        /\ ( /\ last'.op = "neighbors" /\ last'.status = 200
             /\ Owns(last'.tenant, last'.target) ) =>
              \A row \in last'.out :
                  \E a, n \in nodes :
                      /\ a.props.id = last'.target /\ a.props.tenant = last'.tenant
                      /\ n.props.id = row.id
                      /\ Adjacent(edges, a, n) ]_vars

(***************************************************************************)
(* Appends between the commands of a truncate of the key/value adapter     *)
(***************************************************************************)
NextChatRace ==
    \/ append(ValidAuth, None, << "t" >>, ChatMessage(None))
    \/ \E l \in 1..MaxLimit : list_messages(ValidAuth, None, << "t" >>, l)
    \/ \E k \in 0..MaxKeep : truncate_llen(<< "t" >>, k)
    \/ truncate_write

SpecChatRace == InitChat /\ [][NextChatRace]_vars

\* C28: the count a truncate of the key/value adapter returns is the number
\* of messages its delete or trim removed from the thread.
C28_TruncateReturnsRemoved ==
    [][ (chat_port = "redis" /\ trunc.pc = "llen" /\ last'.op = "truncate" /\ trunc'.pc = "idle")
            => last'.out = LLen(redis_lists, ChatKey(last'.target))
                             - LLen(redis_lists', ChatKey(last'.target)) ]_vars

(***************************************************************************)
(* Graph requests and port calls of one tenant                             *)
(***************************************************************************)
RelTypes == { "works_at", "knows" }

GraphRelations ==
    { [src_id |-> a, dst_id |-> b, rel_type |-> t, props |-> NoProps] :
        a, b \in EntityIds, t \in RelTypes }

NextGraph ==
    \/ \E e \in Entities : upsert_entity(ValidAuth, None, e)
    \/ \E r \in GraphRelations : relate(ValidAuth, None, r)
    \/ \E i \in EntityIds : neighbors(ValidAuth, None, i)
    \/ \E i \in EntityIds, t \in RelTypes \cup { AnyRel } : graph_neighbors(i, t, 1)
    \/ \E i \in EntityIds : delete_entity(i)
    \/ \E a, b \in EntityIds, t \in RelTypes : delete_relation(a, b, t)

SpecGraph == Init /\ [][NextGraph]_vars

Exists(ns, id) == \E n \in ns : n.props.id = id

\* a relationship of the type from an entity of one id to an entity of the other
Joins(ns, es, src, dst, rel_type) ==
    \E e \in es : /\ e.type = rel_type
                  /\ NodeOf(ns, e.src).props.id = src
                  /\ NodeOf(ns, e.dst).props.id = dst

\* a neighbors call on the node, of the type or of any
AsksNeighbors(r, node_id, rel_type) ==
    /\ r.target = node_id
    /\ \/ r.op = "neighbors" /\ r.status = 200
       \/ r.op = "graph_neighbors" /\ r.body.rel_type \in { AnyRel, rel_type }

Names(rows, id) == \E row \in rows : row.id = id

\* after a relate of existing entities, neighbors(src) includes dst
RelateThenNeighbors ==
    ( /\ last.op = "relate" /\ last.status = 200
      /\ Exists(nodes, last.body.src_id) /\ Exists(nodes, last.body.dst_id)
      /\ AsksNeighbors(last', last.body.src_id, last.body.rel_type) )
    => Names(last'.out, last.body.dst_id)

\* a delete_relation leaves the relationships of other types, and the entities
DeleteRelationKeepsOthers ==
    last'.op = "delete_relation" =>
        /\ nodes' = nodes
        /\ { e \in edges' : e.type # last'.body.rel_type }
             = { e \in edges : e.type # last'.body.rel_type }

\* C11 as claimed: for existing entities src and dst, neighbors(src) after
\* relate(src, dst, t) includes dst, and after a delete_relation(src, dst, t)
\* that follows the relate neighbors(src, rel_type=t) does not include dst,
\* the relationships of other types and the entities left in place.
C11_RelateNeighborsDelete ==
    [][ /\ RelateThenNeighbors
        /\ DeleteRelationKeepsOthers
        /\ ( /\ last.op = "relate" /\ last.status = 200
              /\ Exists(nodes, last.body.src_id) /\ Exists(nodes, last.body.dst_id)
              /\ last'.op = "delete_relation"
              /\ last'.body.src_id = last.body.src_id
              /\ last'.body.dst_id = last.body.dst_id
              /\ last'.body.rel_type = last.body.rel_type )
            => \A rows \in Neo4j_neighbors(nodes', edges', last'.body.src_id,
                                           last'.body.rel_type, 1) :
                  ~Names(rows, last'.body.dst_id) ]_vars

\* C11 amended: neighbors(src) after relate(src, dst, t) includes dst; after a
\* delete_relation(src, dst, t) no relationship of type t goes from src to
\* dst, and neighbors(src, rel_type=t) includes dst exactly when a
\* relationship of type t from dst to src remains; the relationships of other
\* types and the entities are left in place.
C11_RelateNeighborsDeleteDirected ==
    [][ /\ RelateThenNeighbors
        /\ DeleteRelationKeepsOthers
        /\ last'.op = "delete_relation" =>
              LET src == last'.body.src_id
                  dst == last'.body.dst_id
                  t == last'.body.rel_type
              IN  /\ ~Joins(nodes', edges', src, dst, t)
                  /\ \A rows \in Neo4j_neighbors(nodes', edges', src, t, 1) :
                        Names(rows, dst) <=> Joins(nodes', edges', dst, src, t) ]_vars

\* a delete_relation that removed the relationship of its type from x to y
\* and left one of the other type between them, and one of its type from y to x
C11_Witness ==
    /\ last.op = "delete_relation" /\ last.replaced
    /\ last.body.src_id # last.body.dst_id
    /\ Joins(nodes, edges, last.body.dst_id, last.body.src_id, last.body.rel_type)
    /\ \E t \in RelTypes \ { last.body.rel_type } :
          Joins(nodes, edges, last.body.src_id, last.body.dst_id, t)

\* C12: a relate request that names an id no entity has is not answered as a
\* relate that succeeded is (200 with {ok: true}), and it creates neither a
\* relationship nor an entity.
C12_RelateMissingEndpointDetectable ==
    [][ ( /\ last'.op = "relate" /\ last'.auth = ValidAuth
          /\ ~Exists(nodes, last'.body.src_id) \/ ~Exists(nodes, last'.body.dst_id) )
        => /\ last'.status # 200 \/ last'.out # [ok |-> TRUE]
           /\ edges' = edges
           /\ nodes' = nodes ]_vars

\* both ends of every relationship are nodes
EdgesAttached(ns, es) ==
    \A e \in es : (\E n \in ns : n.nid = e.src) /\ (\E n \in ns : n.nid = e.dst)

\* C15: after delete_entity(id) no entity has the id and no relationship has
\* a deleted entity as an end; after every step both ends of every
\* relationship are existing entities; relate and delete_relation delete no
\* entity.
C15_DetachDelete ==
    [][ /\ last'.op = "delete_entity" =>
              /\ ~Exists(nodes', last'.target)
              /\ \A e \in edges' : /\ e.src \notin Matched(nodes, last'.target)
                                    /\ e.dst \notin Matched(nodes, last'.target)
              /\ \A n \in nodes : n.props.id # last'.target => n \in nodes'
        /\ EdgesAttached(nodes', edges')
        /\ last'.op \in { "relate", "delete_relation" } => nodes' = nodes ]_vars

\* a delete_entity that took relationships with the entity, others remaining
C15_Witness ==
    /\ last.op = "delete_entity" /\ last.replaced
    /\ edges # {} /\ nodes # {}

(***************************************************************************)
(* Graph requests with properties                                          *)
(***************************************************************************)
MaxNodes == 3

EntityProps ==
    { NullProps, [name |-> "Test User"], [name |-> "Test Corp", age |-> 25],
      [id |-> << "y" >>] }

PropEntities ==
    { [id |-> i, type |-> t, props |-> p] :
        i \in EntityIds, t \in { "person", "company" }, p \in EntityProps }

RelationProps == { NullProps, [since |-> 2024], [since |-> 2025, role |-> "lead"] }

PropRelations ==
    { [src_id |-> << "x" >>, dst_id |-> << "y" >>, rel_type |-> t, props |-> p] :
        t \in RelTypes, p \in RelationProps }

\* entities with props, joined by relationships without
NextGraphProps ==
    \/ \E e \in PropEntities : Cardinality(nodes) < MaxNodes /\ upsert_entity(ValidAuth, None, e)
    \/ relate(ValidAuth, None, [src_id |-> << "x" >>, dst_id |-> << "y" >>,
                                rel_type |-> "works_at", props |-> NullProps])

SpecGraphProps == Init /\ [][NextGraphProps]_vars

\* entities without props, joined by relationships with
NextGraphEdges ==
    \/ \E e \in Entities : upsert_entity(ValidAuth, None, e)
    \/ \E r \in PropRelations : relate(ValidAuth, None, r)

SpecGraphEdges == Init /\ [][NextGraphEdges]_vars

EntitiesOf(ns, tenant, id) == { n \in ns : n.props.id = id /\ n.props.tenant = tenant }

\* C13: a served upsert_entity leaves exactly one entity of the id for the
\* tenant; it has the props given, the type given when no entity had the id,
\* and of the props the entity had those that were not given; no
\* relationship is created or deleted.
C13_UpsertEntityMerges ==
    [][ (last'.op = "upsert_entity" /\ last'.status = 200) =>
          LET given == PropsOrEmpty(last'.body.props)
              before == EntitiesOf(nodes, last'.tenant, last'.body.id)
              after == EntitiesOf(nodes', last'.tenant, last'.body.id)
          IN  /\ Cardinality(after) = 1
              /\ \A n \in after :
                    /\ \A k \in DOMAIN given : n.props[k] = given[k]
                    /\ before = {} => n.props.type = last'.body.type
                    /\ \A b \in before : \A k \in DOMAIN b.props \ DOMAIN given :
                          k \in DOMAIN n.props /\ n.props[k] = b.props[k]
              /\ edges' = edges ]_vars

EdgesOf(es, a, b, rel_type) == { e \in es : e.src = a /\ e.dst = b /\ e.type = rel_type }

\* C14: after a served relate(src, dst, t, props) there is, between every
\* entity of id src and every entity of id dst, exactly one relationship of
\* type t; it carries the props it had merged with the props given; every
\* other relationship, those of other types between the pair included, is as
\* it was.
C14_RelationSingleton ==
    [][ (last'.op = "relate" /\ last'.status = 200) =>
          LET t == last'.body.rel_type
              given == PropsOrEmpty(last'.body.props)
              pairs == RelatePairs(nodes, last'.body.src_id, last'.body.dst_id)
              Hit(e) == e.type = t /\ << e.src, e.dst >> \in pairs
          IN  /\ \A q \in pairs :
                    /\ Cardinality(EdgesOf(edges', q[1], q[2], t)) = 1
                    /\ \A e \in EdgesOf(edges', q[1], q[2], t) :
                          IF EdgesOf(edges, q[1], q[2], t) = {}
                          THEN DOMAIN e.props = DOMAIN given
                               /\ \A k \in DOMAIN given : e.props[k] = given[k]
                          ELSE \A o \in EdgesOf(edges, q[1], q[2], t) :
                                  /\ DOMAIN e.props = DOMAIN o.props \cup DOMAIN given
                                  /\ \A k \in DOMAIN given : e.props[k] = given[k]
                                  /\ \A k \in DOMAIN o.props \ DOMAIN given :
                                        e.props[k] = o.props[k]
              /\ { e \in edges' : ~Hit(e) } = { e \in edges : ~Hit(e) }
              /\ nodes' = nodes ]_vars

\* a relate that gave a relationship that had props other props, while a
\* relationship of the other type joins the same entities
C14_Witness ==
    /\ last.op = "relate" /\ last.status = 200 /\ last.replaced
    /\ \E e, f \in edges : /\ e.src = f.src /\ e.dst = f.dst /\ e.type # f.type
                            /\ e.type = last.body.rel_type
                            /\ DOMAIN e.props = { "since", "role" }
                            /\ DOMAIN f.props # {}

(***************************************************************************)
(* neighbors calls of several depths on a chain of three entities          *)
(***************************************************************************)
MaxDepth == 2

ChainIds == { << "x" >>, << "y" >>, << "z" >> }

ChainEntities == { [id |-> i, type |-> "person", props |-> NoProps] : i \in ChainIds }

\* x -> y <- z
ChainRelations ==
    { [src_id |-> p[1], dst_id |-> p[2], rel_type |-> t, props |-> NoProps] :
        p \in { << << "x" >>, << "y" >> >>, << << "z" >>, << "y" >> >> }, t \in RelTypes }

NextGraphDepth ==
    \/ \E e \in ChainEntities : upsert_entity(ValidAuth, None, e)
    \/ \E r \in ChainRelations : relate(ValidAuth, None, r)
    \/ \E i \in ChainIds, t \in RelTypes \cup { AnyRel }, d \in 1..MaxDepth :
          graph_neighbors(i, t, d)

SpecGraphDepth == Init /\ [][NextGraphDepth]_vars

\* the nodes at the end of a walk of 1..d relationships of the type (of any
\* type for AnyRel), in either direction, from a node of the set
RECURSIVE Within(_, _, _, _, _)
Within(ns, es, from, rel_type, d) ==
    IF d = 0 THEN {}
    ELSE LET next == { n \in ns : \E a \in from : AdjacentBy(es, a, n, rel_type) }
         IN  next \cup Within(ns, es, next, rel_type, d - 1)

\* C27: neighbors(node, rel_type, depth) returns every other node within
\* depth hops of the node over relationships of the type (of any type when
\* none is given), followed in either direction, and only nodes within
\* depth hops.
C27_NeighborsWithinDepth ==
    last.op = "graph_neighbors" =>
        LET start == { a \in nodes : a.props.id = last.target }
            reach == { n.props.id : n \in Within(nodes, edges, start, last.body.rel_type,
                                                 last.body.depth) }
            got == { row.id : row \in last.out }
        IN  /\ reach \ { last.target } \subseteq got
            /\ got \subseteq reach

(***************************************************************************)
(* MemoryGraphManager (memory_graph.py).  The store is the hashes and the  *)
(* sets of the Redis client the manager is given; a key is held only while *)
(* its hash or set is not empty.  A pipeline queues the commands given to  *)
(* it and runs them, in order, at execute(); a command sent on self.redis  *)
(* runs at once, on the store as it is before the pipeline runs.           *)
(***************************************************************************)
MemoryPrefix == << "a", "g", "e", "n", "t", ":", "m", "e", "m", "o", "r", "y", ":" >>

AllEntitiesKey == MemoryPrefix \o << "a", "l", "l", "_", "e", "n", "t", "i", "t", "i", "e", "s" >>

_entity_key(name) == MemoryPrefix \o << "e", "n", "t", "i", "t", "y", ":" >> \o name

_relations_key(from_entity, to_entity) ==
    MemoryPrefix \o << "r", "e", "l", "a", "t", "i", "o", "n", "s", ":" >> \o from_entity \o << ":" >> \o to_entity

_entity_type_key(entity_type) == MemoryPrefix \o << "e", "n", "t", "i", "t", "i", "e", "s", "_", "b", "y", "_", "t", "y", "p", "e", ":" >> \o entity_type

_serialize_observations(observations) == json_dumps(observations)

SMembers(sets, key) == IF key \in DOMAIN sets THEN sets[key] ELSE {}

SetMembers(sets, key, members) ==
    IF members = {} THEN [k \in DOMAIN sets \ {key} |-> sets[k]]
    ELSE [k \in DOMAIN sets \cup {key} |-> IF k = key THEN members ELSE sets[k]]

SAdd(sets, key, member) == SetMembers(sets, key, SMembers(sets, key) \cup {member})

SRem(sets, key, member) == SetMembers(sets, key, SMembers(sets, key) \ {member})

SCard(sets, key) == Cardinality(SMembers(sets, key))

SIsMember(sets, key, member) == member \in SMembers(sets, key)

\* the store the manager works on
MemoryStore == [hashes |-> mem_hashes, sets |-> mem_sets]

RedisExists(db, key) == key \in DOMAIN db.hashes \cup DOMAIN db.sets

RedisKeys(db, pattern) ==
    { key \in DOMAIN db.hashes \cup DOMAIN db.sets : GlobMatch(pattern, key) }

Delete(db, keys) ==
    [hashes |-> [k \in DOMAIN db.hashes \ keys |-> db.hashes[k]],
     sets |-> [k \in DOMAIN db.sets \ keys |-> db.sets[k]]]

\* a queued command; delete takes the keys of consecutive pipe.delete calls
Command(cmd, key, arg) == [cmd |-> cmd, key |-> key, arg |-> arg]

RunCommand(db, c) ==
    CASE c.cmd = "hset" -> [db EXCEPT !.hashes = HSet(@, c.key, c.arg)]
      [] c.cmd = "sadd" -> [db EXCEPT !.sets = SAdd(@, c.key, c.arg)]
      [] c.cmd = "srem" -> [db EXCEPT !.sets = SRem(@, c.key, c.arg)]
      [] c.cmd = "delete" -> Delete(db, c.key)

\* pipe.execute()
RECURSIVE Execute(_, _)
Execute(db, pipe) ==
    IF pipe = << >> THEN db ELSE Execute(RunCommand(db, Head(pipe)), Tail(pipe))

\* the commands create_entities queues, db being the store during the loop
RECURSIVE create_entities_pipe(_, _)
create_entities_pipe(db, entities) ==
    IF entities = << >> THEN << >>
    ELSE LET entity == Head(entities)
             entity_key == _entity_key(entity.name)
         IN  ( IF ~RedisExists(db, entity_key)
               THEN << Command("hset", entity_key,
                               [entityType |-> entity.entityType,
                                observations |-> _serialize_observations(entity.observations)]),
                       Command("sadd", _entity_type_key(entity.entityType), entity.name),
                       Command("sadd", AllEntitiesKey, entity.name) >>
               ELSE << >> )
             \o create_entities_pipe(db, Tail(entities))

new_entities(db, entities) ==
    SelectSeq(entities, LAMBDA entity : ~RedisExists(db, _entity_key(entity.name)))

RECURSIVE create_relations_pipe(_, _)
create_relations_pipe(db, relations) ==
    IF relations = << >> THEN << >>
    ELSE LET relation == Head(relations)
             relations_key == _relations_key(relation.from, relation.to)
         IN  ( IF ~SIsMember(db.sets, relations_key, relation.relationType)
               THEN << Command("sadd", relations_key, relation.relationType) >>
               ELSE << >> )
             \o create_relations_pipe(db, Tail(relations))

new_relations(db, relations) ==
    SelectSeq(relations,
              LAMBDA relation : ~SIsMember(db.sets, _relations_key(relation.from, relation.to),
                                           relation.relationType))

RECURSIVE delete_entities_pipe(_, _)
delete_entities_pipe(db, entity_names) ==
    IF entity_names = << >> THEN << >>
    ELSE LET entity_name == Head(entity_names)
             entity_key == _entity_key(entity_name)
             typed == /\ entity_key \in DOMAIN db.hashes
                      /\ "entityType" \in DOMAIN db.hashes[entity_key]
             relation_keys ==
                 RedisKeys(db, _relations_key(entity_name, << "*" >>))
                     \cup RedisKeys(db, _relations_key(<< "*" >>, entity_name))
         IN  ( IF typed
               THEN << Command("srem", _entity_type_key(db.hashes[entity_key].entityType),
                               entity_name) >>
               ELSE << >> )
             \o << Command("delete", {entity_key}, None),
                   Command("srem", AllEntitiesKey, entity_name),
                   Command("delete", relation_keys, None) >>
             \o delete_entities_pipe(db, Tail(entity_names))

RECURSIVE delete_relations_pipe(_, _)
delete_relations_pipe(db, relations) ==
    IF relations = << >> THEN << >>
    ELSE LET relation == Head(relations)
             relations_key == _relations_key(relation.from, relation.to)
         IN  << Command("srem", relations_key, relation.relationType) >>
             \o ( IF SCard(db.sets, relations_key) = 1
                  THEN << Command("delete", {relations_key}, None) >>
                  ELSE << >> )
             \o delete_relations_pipe(db, Tail(relations))

get_entity_by_type(db, entity_type) == SMembers(db.sets, _entity_type_key(entity_type))

get_entity_count(db) == SCard(db.sets, AllEntitiesKey)

create_entities(entities) ==
    LET db == Execute(MemoryStore, create_entities_pipe(MemoryStore, entities))
    IN  /\ mem_hashes' = db.hashes
        /\ mem_sets' = db.sets
        /\ last' = [Response("create_entities", None, None, None, entities, 200,
                             new_entities(MemoryStore, entities))
                      EXCEPT !.replaced =
                        \E key \in DOMAIN mem_hashes : db.hashes[key] # mem_hashes[key]]
        /\ UNCHANGED << vectorVars, chatVars, graphVars, depsVars >>

create_relations(relations) ==
    LET db == Execute(MemoryStore, create_relations_pipe(MemoryStore, relations))
    IN  /\ mem_hashes' = db.hashes
        /\ mem_sets' = db.sets
        /\ last' = Response("create_relations", None, None, None, relations, 200,
                            new_relations(MemoryStore, relations))
        /\ UNCHANGED << vectorVars, chatVars, graphVars, depsVars >>

delete_entities(entity_names) ==
    LET db == Execute(MemoryStore, delete_entities_pipe(MemoryStore, entity_names))
    IN  /\ mem_hashes' = db.hashes
        /\ mem_sets' = db.sets
        /\ last' = Response("delete_entities", None, None, None, entity_names, 200, << >>)
        /\ UNCHANGED << vectorVars, chatVars, graphVars, depsVars >>

delete_relations(relations) ==
    LET db == Execute(MemoryStore, delete_relations_pipe(MemoryStore, relations))
    IN  /\ mem_hashes' = db.hashes
        /\ mem_sets' = db.sets
        /\ last' = Response("delete_relations", None, None, None, relations, 200, << >>)
        /\ UNCHANGED << vectorVars, chatVars, graphVars, depsVars >>

(***************************************************************************)
(* Calls of the memory graph manager                                       *)
(***************************************************************************)
MemNames == { << "a" >>, << "b" >> }

MemTypes == { << "p" >>, << "o" >> }

MemEntities ==
    { [name |-> n, entityType |-> t, observations |-> << >>] : n \in MemNames, t \in MemTypes }

MemRelationTypes == { "knows", "likes" }

MemRelations ==
    { [from |-> p[1], to |-> p[2], relationType |-> t] :
        p \in { << << "a" >>, << "b" >> >>, << << "b" >>, << "a" >> >> },
        t \in MemRelationTypes }

NextMemory ==
    \/ \E b \in SeqsUpTo(MemEntities, MaxBatch) : create_entities(b)
    \/ \E b \in SeqsUpTo(MemNames, MaxBatch) : delete_entities(b)
    \/ \E r \in { q \in MemRelations : q.from = << "a" >> /\ q.relationType = "knows" } :
          create_relations(<< r >>)

SpecMemory == Init /\ [][NextMemory]_vars

NextMemoryRelations ==
    \/ \E b \in SeqsUpTo(MemRelations, MaxBatch) : create_relations(b)
    \/ \E b \in SeqsUpTo(MemRelations, MaxBatch) : delete_relations(b)

SpecMemoryRelations == Init /\ [][NextMemoryRelations]_vars

\* the relations the store holds
RelationsIn(sets) ==
    { r \in MemRelations : SIsMember(sets, _relations_key(r.from, r.to), r.relationType) }

\* C29: delete_relations removes the listed relations and leaves every other
\* relation as it was.
C29_DeleteRelationsExact ==
    [][ last'.op = "delete_relations" =>
            RelationsIn(mem_sets')
              = RelationsIn(mem_sets) \ { last'.body[i] : i \in 1..Len(last'.body) } ]_vars

\* C30: create_entities changes no entity that existed before the call; a
\* name is in the all_entities set exactly when its entity record exists, and
\* in the index of a type exactly when its record's entityType is that type.
C30_EntityIndexesConsistent ==
    /\ last.op = "create_entities" => ~last.replaced
    /\ \A n \in MemNames :
          /\ SIsMember(mem_sets, AllEntitiesKey, n) <=> _entity_key(n) \in DOMAIN mem_hashes
          /\ \A t \in MemTypes :
                n \in get_entity_by_type(MemoryStore, t)
                    <=> /\ _entity_key(n) \in DOMAIN mem_hashes
                        /\ mem_hashes[_entity_key(n)].entityType = t
    /\ get_entity_count(MemoryStore)
         = Cardinality({ n \in MemNames : _entity_key(n) \in DOMAIN mem_hashes })

(***************************************************************************)
(* Requests with and without a valid bearer token, on every route          *)
(***************************************************************************)
healthz(authorization) ==
    /\ last' = Response("healthz", authorization, None, None, << >>, 200, [ok |-> TRUE])
    /\ UNCHANGED << vectorVars, chatVars, graphVars, depsVars, memVars >>

AuthHeaders ==
    { None, << >>, ValidAuth,
      Bearer \o << "i", "n", "v", "a", "l", "i", "d", "_", "k", "e", "y" >>,
      << "B", "e", "a", "r", "e", "r" >>,
      << "B", "a", "s", "i", "c", " " >> \o api_key,
      << "b", "e", "a", "r", "e", "r", " " >> \o api_key }

NextAuth ==
    \E a \in AuthHeaders :
        \/ healthz(a)
        \/ put_collection(a, None, << "c" >>, [dim |-> 8, metric |-> "cosine"])
        \/ upsert(a, None, << "c" >>, << Item(<< "x" >>, E1, None) >>)
        \/ query(a, None, << "c" >>, [embedding |-> E1, k |-> 1])
        \/ append(a, None, << "t" >>, ChatMessage(None))
        \/ list_messages(a, None, << "t" >>, 1)
        \/ upsert_entity(a, None, [id |-> << "x" >>, type |-> "person", props |-> NoProps])
        \/ relate(a, None, [src_id |-> << "x" >>, dst_id |-> << "x" >>,
                            rel_type |-> "works_at", props |-> NoProps])
        \/ neighbors(a, None, << "x" >>)

SpecAuth == Init /\ [][NextAuth]_vars

Stores == << pg_tables, redis_hashes, pg_messages, pg_threads, redis_lists, clock, nodes, edges >>

\* C4: a request to a /v1 route whose Authorization header is absent or does
\* not start with "Bearer " is answered 401, one whose bearer token is not
\* the configured key is answered 403, and neither changes anything stored;
\* GET /healthz answers {ok: true} whatever the header.
C4_AuthenticationGate ==
    [][ LET a == last'.auth
            malformed == a = None \/ a = << >> \/ ~StartsWith(a, Bearer)
        IN  IF last'.op = "healthz"
            THEN last'.status = 200 /\ last'.out = [ok |-> TRUE]
            ELSE /\ malformed => (last'.status = 401 /\ Stores' = Stores)
                 /\ (~malformed /\ SubSeq(a, 8, Len(a)) # api_key) =>
                        (last'.status = 403 /\ Stores' = Stores) ]_vars

\* a request with a wrong bearer token refused while every store holds data
C4_Witness ==
    /\ last.status = 403 /\ last.op = "upsert"
    /\ \E n \in DOMAIN pg_tables : DOMAIN pg_tables[n].rows # {}
    /\ pg_messages # {}
    /\ nodes # {} /\ edges # {}

(***************************************************************************)
(* The port resolvers (deps.py).  get_vector_port, get_chat_port and       *)
(* get_graph_port are plain functions: the framework runs each call on a   *)
(* worker of its threadpool, and a worker can be preempted between the     *)
(* test of the handle, its assignment and the return.                      *)
(***************************************************************************)
SetHandles(port, adapter) ==
    /\ _vector' = IF port = "vector" THEN adapter ELSE _vector
    /\ _chat' = IF port = "chat" THEN adapter ELSE _chat
    /\ _graph' = IF port = "graph" THEN adapter ELSE _graph

\* a request that depends on the port reaches a worker
get_port_call(w, port) ==
    /\ calls[w].pc = "idle"
    /\ calls' = [calls EXCEPT ![w] = [port |-> port, pc |-> "test"]]
    /\ UNCHANGED << settings, _vector, _chat, _graph, constructed, returned,
                    vectorVars, chatVars, graphVars, last, memVars >>

\* if _vector is None:
get_port_test(w) ==
    /\ calls[w].pc = "test"
    /\ calls' = [calls EXCEPT ![w].pc =
                    IF is_None(Handle(calls[w].port)) THEN "construct" ELSE "return"]
    /\ UNCHANGED << settings, _vector, _chat, _graph, constructed, returned,
                    vectorVars, chatVars, graphVars, last, memVars >>

\* _vector = PgVectorAdapter(settings.pg_dsn)
get_port_construct(w) ==
    /\ calls[w].pc = "construct"
    /\ constructed' = [constructed EXCEPT ![calls[w].port] = @ + 1]
    /\ SetHandles(calls[w].port, [adapter |-> Constructs(calls[w].port),
                                  no |-> constructed[calls[w].port] + 1])
    /\ calls' = [calls EXCEPT ![w].pc = "return"]
    /\ UNCHANGED << settings, returned, vectorVars, chatVars, graphVars, last, memVars >>

\* return _vector
get_port_return(w) ==
    /\ calls[w].pc = "return"
    /\ returned' = returned \cup { << calls[w].port, Handle(calls[w].port) >> }
    /\ calls' = [calls EXCEPT ![w] = Idle]
    /\ UNCHANGED << settings, _vector, _chat, _graph, constructed,
                    vectorVars, chatVars, graphVars, last, memVars >>

\* the backends the environment can name
Backends ==
    { [vector_backend |-> v, chat_backend |-> c, graph_backend |-> "neo4j"] :
        v \in { "pgvector", "redis" }, c \in { "postgres", "redis" } }

InitDeps ==
    /\ Init!1 /\ Init!2 /\ Init!3 /\ Init!4 /\ Init!5 /\ Init!6 /\ Init!7 /\ Init!8
    /\ Init!9 /\ Init!10 /\ Init!11 /\ Init!12 /\ Init!13 /\ Init!14
    /\ Init!16 /\ Init!17 /\ Init!18 /\ Init!19 /\ Init!20 /\ Init!21
    /\ Init!22 /\ Init!23 /\ Init!24
    /\ settings \in Backends

NextDeps ==
    \E w \in Workers :
        \/ \E port \in Ports : get_port_call(w, port)
        \/ get_port_test(w)
        \/ get_port_construct(w)
        \/ get_port_return(w)

SpecDeps == InitDeps /\ [][NextDeps]_vars

\* the adapter class a backend name stands for
Named(port) ==
    CASE port = "vector" ->
            IF settings.vector_backend = "redis" THEN "RedisVectorAdapter"
            ELSE "PgVectorAdapter"
      [] port = "chat" ->
            IF settings.chat_backend = "redis" THEN "RedisChatAdapter"
            ELSE "PostgresChatAdapter"
      [] port = "graph" -> "Neo4jAdapter"

\* C19: the adapter a port's resolver returns is of the backend the settings
\* name for the port, and neither the settings nor the class of the adapter
\* behind a port change while the process runs.
C19_ConfiguredBackend ==
    [][ /\ \A r \in returned' : r[2].adapter = Named(r[1])
        /\ settings' = settings
        /\ \A r1, r2 \in returned' : r1[1] = r2[1] => r1[2].adapter = r2[2].adapter ]_vars

\* C20 as claimed: whatever the interleaving of the resolver calls, at most
\* one adapter is constructed for a port and every call for the port returns
\* the same adapter.
C20_SingletonPerPort ==
    \A port \in Ports :
        /\ constructed[port] <= 1
        /\ \A r1, r2 \in returned : (r1[1] = port /\ r2[1] = port) => r1 = r2

Constructing(port) == \E w \in Workers : calls[w].port = port /\ calls[w].pc = "construct"

\* C20 amended: an adapter is constructed only by a call that found the
\* handle unset; once a port's handle is set and no such call is in progress,
\* the handle does not change, no adapter is constructed for the port, and
\* every call for the port returns the adapter of the handle.
C20_SingletonOnceSettled ==
    [][ \A port \in Ports :
          /\ constructed'[port] # constructed[port] =>
                \E w \in Workers : /\ calls[w].port = port /\ calls[w].pc = "construct"
                                   /\ calls'[w].pc = "return"
          /\ (Handle(port) # NoAdapter /\ ~Constructing(port)) =>
                /\ Handle(port)' = Handle(port)
                /\ constructed'[port] = constructed[port]
                /\ ~Constructing(port)'
                /\ \A r \in returned' \ returned : r[1] = port => r[2] = Handle(port) ]_vars

\* two adapters were constructed for the vector port by concurrent first
\* calls, both calls have returned, and a later call is returning
C20_Witness ==
    /\ constructed["vector"] = 2
    /\ Cardinality({ r \in returned : r[1] = "vector" }) = 2
    /\ ~Constructing("vector")
    /\ \E w \in Workers : calls[w].port = "vector" /\ calls[w].pc = "return"

====
